---- MODULE Spec2Model ----
(***************************************************************************)
(* Model of neurokit2/ecg/ecg_intervalrelated.py.                          *)
(*                                                                         *)
(* State: the object the caller holds and passes as `data` (a DataFrame    *)
(* or a dict of epoch DataFrames), the two dictionaries that Python        *)
(* allocates once for the `output={}` default arguments of                 *)
(* _ecg_intervalrelated_formatinput and _ecg_intervalrelated_hrv, and a    *)
(* record of the last call of ecg_intervalrelated on the held object (its  *)
(* arguments, its result, the order of the steps performed).  `kept` is a  *)
(* call record the caller puts aside to compare a later call with.         *)
(*                                                                         *)
(* Floats are exact rationals [num, den] in lowest terms; NaN is 0/0.      *)
(***************************************************************************)
EXTENDS Integers, Sequences, FiniteSets, TLC

VARIABLES data, fmt_default, hrv_default, last, kept

vars == <<data, fmt_default, hrv_default, last, kept>>

\* ---------------------------------------------------------------- bounds
\* Largest number of rows (samples) of a DataFrame.
MaxLen == 3

\* Labels of the epochs a caller may put in a dict, and the sampling rates.
Labels == {"epoch1", "epoch2"}
SamplingRates == {100, 1000}

\* ------------------------------------------------------------ float values
RECURSIVE Gcd(_, _)
Gcd(a, b) == IF b = 0 THEN a ELSE Gcd(b, a % b)

\* The float a / b (b > 0), in lowest terms.
Frac(a, b) == [num |-> a \div Gcd(a, b), den |-> b \div Gcd(a, b)]

NaN == [num |-> 0, den |-> 0]

\* float(x) of an integer-valued cell.
Float(x) == [num |-> x, den |-> 1]

RECURSIVE Sum(_)
Sum(s) == IF s = <<>> THEN 0 ELSE Head(s) + Sum(Tail(s))

\* np.mean of a 1-D array: NaN for an empty array.
np_mean(signal) ==
  IF Len(signal) = 0 THEN NaN ELSE Frac(Sum(signal), Len(signal))

\* ------------------------------------------------------------ column names
\* A column name as the sequence of its underscore-separated parts, so that
\* Python's substring test is a test on the name and not a table lookup.
Parts(col) ==
  CASE col = "ECG_Rate" -> <<"ECG", "Rate">>
    [] col = "ECG_Rate_Surrogate" -> <<"ECG", "Rate", "Surrogate">>
    [] col = "ECG_R_Peaks" -> <<"ECG", "R", "Peaks">>
    [] col = "Index" -> <<"Index">>
    [] col = "Label" -> <<"Label">>
    [] OTHER -> <<col>>

\* needle in hay
Contains(needle, hay) ==
  \E i \in 1..(Len(hay) - Len(needle) + 1) :
    SubSeq(hay, i, i + Len(needle) - 1) = needle

\* 'ECG_Rate' in col
IsRateCol(col) == Contains(Parts("ECG_Rate"), Parts(col))

\* --------------------------------------------------------------- DataFrames
\* A DataFrame is a function from its column names to the column's values.
SignalCols == {"ECG_Rate", "ECG_Rate_Surrogate"}

\* The values of a column of n rows, as the upstream processing produces them.
Signal(col, n, label) ==
  CASE col = "ECG_Rate" -> [i \in 1..n |-> 60 + 3 * (i - 1)]
    [] col = "ECG_Rate_Surrogate" -> [i \in 1..n |-> 80 + i]
    [] col = "ECG_R_Peaks" -> [i \in 1..n |-> 1]
    [] col = "Index" -> [i \in 1..n |-> i - 1]
    [] OTHER -> [i \in 1..n |-> label]

\* The output of ecg_process(): the peaks column and any of the rate columns.
Frame(n, cols) == [c \in cols \cup {"ECG_R_Peaks"} |-> Signal(c, n, 0)]

\* One epoch of epochs_create(): the same, with the Index and Label columns.
Epoch(n, cols, label) ==
  [c \in cols \cup {"ECG_R_Peaks", "Index", "Label"} |-> Signal(c, n, label)]

Frames == {Frame(n, cols) : n \in 1..MaxLen, cols \in SUBSET SignalCols}

\* The number stored in the Label column of an epoch.
LabelNo(l) == IF l = "epoch1" THEN 1 ELSE 2

Epochs(l) ==
  {Epoch(n, cols, LabelNo(l)) : n \in 1..MaxLen, cols \in SUBSET SignalCols}

NoFrame == <<>>
EmptyDict == [keys |-> <<>>, val |-> <<>>]

\* Python dict: the keys in insertion order and the value of each key.
DictSet(d, k, v) ==
  [keys |-> IF \E i \in 1..Len(d.keys) : d.keys[i] = k
            THEN d.keys ELSE Append(d.keys, k),
   val |-> [x \in DOMAIN d.val \cup {k} |-> IF x = k THEN v ELSE d.val[x]]]

\* dict.update on flat records (feature name -> float).
Update(d, e) ==
  [k \in DOMAIN d \cup DOMAIN e |-> IF k \in DOMAIN e THEN e[k] ELSE d[k]]

\* d[k] = v on a flat record.
SetItem(d, k, v) == [x \in DOMAIN d \cup {k} |-> IF x = k THEN v ELSE d[x]]

\* ------------------------------------------------------- external routine
\* ecg_hrv(data, sampling_rate): one row of named metrics computed from the
\* R peaks of the frame, or an error when there are too few peaks.  With a
\* peak on every sample each RR interval lasts 1000 / sampling_rate ms.
NPeaks(frame) == Sum(frame["ECG_R_Peaks"])

ecg_hrv(frame, sampling_rate) ==
  IF NPeaks(frame) < 2
  THEN [raised |-> "HrvError", hrv |-> <<>>]
  ELSE [raised |-> "none",
        hrv |-> IF NPeaks(frame) = 2
                THEN [c \in {"HRV_MeanNN"} |-> 1000 \div sampling_rate]
                ELSE [c \in {"HRV_MeanNN", "HRV_SDNN"} |->
                        IF c = "HRV_MeanNN" THEN 1000 \div sampling_rate
                        ELSE 0]]

\* ---------------------------------------------------------------- internals
\* Variant: the presence check is left out.
formatinput_nocheck(frame, output) ==
  IF "ECG_Rate" \notin DOMAIN frame
  THEN [raised |-> "KeyError", output |-> output, steps |-> <<"validate">>]
  ELSE [raised |-> "none",
        output |-> SetItem(output, "ECG_Rate_Mean", np_mean(frame["ECG_Rate"])),
        steps |-> <<"validate", "mean">>]

\* Variant: a mean already in `output` is kept (setdefault).
formatinput_stale(frame, output) ==
  IF Cardinality({i \in DOMAIN frame : IsRateCol(i)}) = 0
  THEN [raised |-> "ValueError", output |-> output, steps |-> <<>>]
  ELSE IF "ECG_Rate" \notin DOMAIN frame
  THEN [raised |-> "KeyError", output |-> output, steps |-> <<"validate">>]
  ELSE [raised |-> "none",
        output |-> IF "ECG_Rate_Mean" \in DOMAIN output THEN output
                   ELSE SetItem(output, "ECG_Rate_Mean",
                                np_mean(frame["ECG_Rate"])),
        steps |-> <<"validate", "mean">>]

\* _ecg_intervalrelated_formatinput(data, output): `output` is the dictionary
\* object passed (or the shared default); it is mutated in place and returned.
\* steps: what was done, in order.
formatinput(frame, output) ==
  IF Cardinality({i \in DOMAIN frame : IsRateCol(i)}) = 0
  THEN [raised |-> "ValueError", output |-> output, steps |-> <<>>]
  ELSE IF "ECG_Rate" \notin DOMAIN frame
  THEN [raised |-> "KeyError", output |-> output, steps |-> <<"validate">>]
  ELSE [raised |-> "none",
        output |-> SetItem(output, "ECG_Rate_Mean", np_mean(frame["ECG_Rate"])),
        steps |-> <<"validate", "mean">>]

\* _ecg_intervalrelated_hrv(data, sampling_rate, output)
intervalrelated_hrv(frame, sampling_rate, output) ==
  LET r == ecg_hrv(frame, sampling_rate)
  IN  IF r.raised # "none"
      THEN [raised |-> r.raised, output |-> output, steps |-> <<"hrv">>]
      ELSE [raised |-> "none",
            output |-> Update(output, [column \in DOMAIN r.hrv |->
                                         Float(r.hrv[column])]),
            steps |-> <<"hrv">>]

\* ------------------------------------------------------------------ results
\* What a call gives back: the exception raised, or the DataFrame returned
\* (row index, column names, cells).
Raise(e) ==
  [raised |-> e, returned |-> FALSE, index |-> <<>>, columns |-> {},
   cell |-> <<>>]

Return(index, columns, cell) ==
  [raised |-> "none", returned |-> TRUE, index |-> index,
   columns |-> columns, cell |-> cell]

\* pd.DataFrame.from_dict(intervals, orient="index").T of a flat record:
\* one row, numbered 0, with the record's keys as columns.
OneRowFrame(intervals) ==
  Return(<<0>>, DOMAIN intervals,
         [p \in {0} \X DOMAIN intervals |-> intervals[p[2]]])

\* pd.DataFrame.from_dict(intervals, orient="index") of a dict of records:
\* one row per key, the columns are the union of the records' keys, and a
\* key a record lacks is NaN in its row.
FromDictIndex(intervals) ==
  LET rows == {intervals.keys[i] : i \in 1..Len(intervals.keys)}
      columns == UNION {DOMAIN intervals.val[r] : r \in rows}
  IN  Return(intervals.keys, columns,
             [p \in rows \X columns |->
                IF p[2] \in DOMAIN intervals.val[p[1]]
                THEN intervals.val[p[1]][p[2]] ELSE NaN])

\* The steps of one window, tagged with the window.
Tag(steps, window) == [i \in 1..Len(steps) |-> <<steps[i], window>>]

\* ------------------------------------------------------ ecg_intervalrelated
\* The DataFrame branch.  fd, hd: the default dictionaries of the two
\* internals, which are the `output` of both calls here.
\* Gives the result, the default dictionaries afterwards and the steps done.
FrameBranch(frame, sampling_rate, fd, hd) ==
  LET rate_cols == {col \in DOMAIN frame : IsRateCol(col)}
      f == formatinput(frame, fd)
      h == intervalrelated_hrv(frame, sampling_rate, hd)
      checked == <<<<"validate", "frame">>>>
  IN  IF Cardinality(rate_cols) # 1
      THEN [out |-> Raise("ValueError"), fd |-> fd, hd |-> hd, log |-> <<>>]
      ELSE IF f.raised # "none"
      THEN [out |-> Raise(f.raised), fd |-> f.output, hd |-> hd,
            log |-> checked \o Tag(f.steps, "frame")]
      ELSE IF h.raised # "none"
      THEN [out |-> Raise(h.raised), fd |-> f.output, hd |-> h.output,
            log |-> checked \o Tag(f.steps \o h.steps, "frame")]
      ELSE [out |-> OneRowFrame(Update(Update(<<>>, f.output), h.output)),
            fd |-> f.output, hd |-> h.output,
            log |-> checked \o Tag(f.steps \o h.steps, "frame")]

\* data[index].set_index('Index').drop(['Label'], axis=1): the frame without
\* the two columns; KeyError when one of them is not a column.
Normalize(frame) ==
  IF "Index" \notin DOMAIN frame \/ "Label" \notin DOMAIN frame
  THEN [raised |-> "KeyError", frame |-> frame]
  ELSE [raised |-> "none",
        frame |-> [c \in DOMAIN frame \ {"Index", "Label"} |-> frame[c]]]

\* Variant: the record of a label starts as the record of the label before
\* it (one dictionary shared by the labels) instead of empty.
LoopBody_shared(st, index, sampling_rate) ==
  LET before == IF st.intervals.keys = <<>> THEN <<>>
                ELSE st.intervals.val[st.intervals.keys[Len(st.intervals.keys)]]
      fresh == DictSet(st.intervals, index, before)
      n == Normalize(st.d.val[index])
      d1 == DictSet(st.d, index, n.frame)
      f == formatinput(n.frame, fresh.val[index])
      h == intervalrelated_hrv(n.frame, sampling_rate, f.output)
      normalized == <<<<"normalize", index>>>>
  IN  IF n.raised # "none"
      THEN [d |-> st.d, intervals |-> fresh, log |-> st.log,
            raised |-> n.raised]
      ELSE IF f.raised # "none"
      THEN [d |-> d1, intervals |-> DictSet(fresh, index, f.output),
            log |-> st.log \o normalized \o Tag(f.steps, index),
            raised |-> f.raised]
      ELSE [d |-> d1, intervals |-> DictSet(fresh, index, h.output),
            log |-> st.log \o normalized \o Tag(f.steps \o h.steps, index),
            raised |-> h.raised]

\* One pass of the loop body for the key `index`.  st: the caller's dict, the
\* `intervals` dict, the steps so far and the exception raised, if any.
LoopBody(st, index, sampling_rate) ==
  LET fresh == DictSet(st.intervals, index, <<>>)
      n == Normalize(st.d.val[index])
      d1 == DictSet(st.d, index, n.frame)
      f == formatinput(n.frame, fresh.val[index])
      h == intervalrelated_hrv(n.frame, sampling_rate, f.output)
      normalized == <<<<"normalize", index>>>>
  IN  IF n.raised # "none"
      THEN [d |-> st.d, intervals |-> fresh, log |-> st.log,
            raised |-> n.raised]
      ELSE IF f.raised # "none"
      THEN [d |-> d1, intervals |-> DictSet(fresh, index, f.output),
            log |-> st.log \o normalized \o Tag(f.steps, index),
            raised |-> f.raised]
      ELSE [d |-> d1, intervals |-> DictSet(fresh, index, h.output),
            log |-> st.log \o normalized \o Tag(f.steps \o h.steps, index),
            raised |-> h.raised]

\* Variant: a label whose analysis fails is skipped (its exception swallowed,
\* its record dropped) and the loop goes on.
RECURSIVE Loop_skip(_, _, _, _)
Loop_skip(keys, i, st, sampling_rate) ==
  IF i > Len(keys)
  THEN st
  ELSE LET r == LoopBody(st, keys[i], sampling_rate)
       IN  Loop_skip(keys, i + 1,
                     IF r.raised # "none" THEN [st EXCEPT !.d = r.d] ELSE r,
                     sampling_rate)

\* Variant: the first exception is raised only after all labels were handled.
RECURSIVE Loop_noabort(_, _, _, _)
Loop_noabort(keys, i, st, sampling_rate) ==
  IF i > Len(keys)
  THEN st
  ELSE LET r == LoopBody(st, keys[i], sampling_rate)
       IN  Loop_noabort(keys, i + 1,
                        IF st.raised # "none"
                        THEN [r EXCEPT !.raised = st.raised] ELSE r,
                        sampling_rate)

\* for index in data: ... from the i-th key on; an exception ends the loop.
RECURSIVE Loop(_, _, _, _)
Loop(keys, i, st, sampling_rate) ==
  IF i > Len(keys) \/ st.raised # "none"
  THEN st
  ELSE Loop(keys, i + 1, LoopBody(st, keys[i], sampling_rate), sampling_rate)

\* The dict branch.
DictBranch(d, sampling_rate) ==
  LET st == Loop(d.keys, 1,
                 [d |-> d, intervals |-> EmptyDict, log |-> <<>>,
                  raised |-> "none"],
                 sampling_rate)
  IN  [out |-> IF st.raised # "none" THEN Raise(st.raised)
               ELSE FromDictIndex(st.intervals),
       d |-> st.d, log |-> st.log]

\* ------------------------------------------------------------------- state
NoCall ==
  [called |-> FALSE, sampling_rate |-> 0, data |-> <<>>, out |-> Raise("none"),
   log |-> <<>>, fd |-> <<>>, hd |-> <<>>]

HeldFrame(frame) == [kind |-> "DataFrame", frame |-> frame, dict |-> EmptyDict]
HeldDict(d) == [kind |-> "dict", frame |-> NoFrame, dict |-> d]

Init ==
  /\ data = HeldDict(EmptyDict)
  /\ fmt_default = <<>>
  /\ hrv_default = <<>>
  /\ last = NoCall
  /\ kept = NoCall

\* The caller obtains a processed DataFrame.
NewFrame(frame) ==
  /\ data' = HeldFrame(frame)
  /\ last' = NoCall
  /\ UNCHANGED <<fmt_default, hrv_default, kept>>

\* The caller starts a new dict of epochs.
NewDict ==
  /\ data' = HeldDict(EmptyDict)
  /\ last' = NoCall
  /\ UNCHANGED <<fmt_default, hrv_default, kept>>

\* The caller adds an epoch to the dict it is building.
AddEpoch(label, frame) ==
  /\ data.kind = "dict"
  /\ ~last.called
  /\ label \notin DOMAIN data.dict.val
  /\ data' = HeldDict(DictSet(data.dict, label, frame))
  /\ UNCHANGED <<fmt_default, hrv_default, last, kept>>

\* ecg_intervalrelated(data, sampling_rate) on a DataFrame.
CallFrame(sampling_rate) ==
  /\ data.kind = "DataFrame"
  /\ LET r == FrameBranch(data.frame, sampling_rate, fmt_default, hrv_default)
     IN  /\ fmt_default' = r.fd
         /\ hrv_default' = r.hd
         /\ last' = [called |-> TRUE, sampling_rate |-> sampling_rate,
                     data |-> data, out |-> r.out, log |-> r.log,
                     fd |-> fmt_default, hd |-> hrv_default]
  /\ UNCHANGED <<data, kept>>

\* ecg_intervalrelated(data, sampling_rate) on a dict.
CallDict(sampling_rate) ==
  /\ data.kind = "dict"
  /\ LET r == DictBranch(data.dict, sampling_rate)
     IN  /\ data' = HeldDict(r.d)
         /\ last' = [called |-> TRUE, sampling_rate |-> sampling_rate,
                     data |-> data, out |-> r.out, log |-> r.log,
                     fd |-> fmt_default, hd |-> hrv_default]
  /\ UNCHANGED <<fmt_default, hrv_default, kept>>

Next ==
  \/ \E frame \in Frames : NewFrame(frame)
  \/ NewDict
  \/ \E label \in Labels : \E frame \in Epochs(label) : AddEpoch(label, frame)
  \/ \E sampling_rate \in SamplingRates : CallFrame(sampling_rate)
  \/ \E sampling_rate \in SamplingRates : CallDict(sampling_rate)

Spec == Init /\ [][Next]_vars

\* The caller puts the record of the last call on a DataFrame aside.
Keep ==
  /\ last.called
  /\ last.data.kind = "DataFrame"
  /\ ~kept.called
  /\ kept' = last
  /\ UNCHANGED <<data, fmt_default, hrv_default, last>>

\* Calls on DataFrames only, one of which the caller keeps for comparison.
NextFrames ==
  \/ \E frame \in Frames : NewFrame(frame)
  \/ \E sampling_rate \in SamplingRates : CallFrame(sampling_rate)
  \/ Keep

SpecFrames == Init /\ [][NextFrames]_vars

\* =================================================================== claims
\* Vocabulary of the properties, stated on the arguments and the result of
\* the recorded call, not on the steps of the code.
FrameCall(c) == c.called /\ c.data.kind = "DataFrame"
DictCall(c) == c.called /\ c.data.kind = "dict"

RateCols(frame) == {col \in DOMAIN frame : IsRateCol(col)}

KeySet(d) == {d.keys[i] : i \in 1..Len(d.keys)}

\* x is the arithmetic mean of the (non-empty) signal.
IsMeanOf(x, signal) ==
  /\ Len(signal) > 0
  /\ x.den > 0
  /\ x.num * Len(signal) = x.den * Sum(signal)

\* The frames a call analyses: the frame itself, or the frame of each label.
Windows(c) ==
  IF c.data.kind = "DataFrame" THEN {c.data.frame}
  ELSE {c.data.dict.val[l] : l \in KeySet(c.data.dict)}

\* The metrics the variability routine gives for this frame in this call.
Metrics(frame, sampling_rate) == ecg_hrv(frame, sampling_rate).hrv

\* C1: a successful call on a DataFrame returns one row whose columns are
\* exactly ECG_Rate_Mean and the metrics the variability routine returned in
\* this call, with this call's values; nothing of an earlier call is in it.
C1_NoLeakFromEarlierCalls ==
  (FrameCall(last) /\ last.out.returned) =>
    LET m == Metrics(last.data.frame, last.sampling_rate)
    IN  /\ last.out.index = <<0>>
        /\ last.out.columns = {"ECG_Rate_Mean"} \cup DOMAIN m
        /\ \A k \in DOMAIN m : last.out.cell[<<0, k>>] = Float(m[k])

\* C2: a call whose input has a frame with two or more columns whose name
\* contains ECG_Rate fails with the invalid-input error (ValueError), for a
\* DataFrame and for the frame of any label of a dict alike.
C2_AmbiguousRateColumnRejected ==
  (last.called /\ \E w \in Windows(last) : Cardinality(RateCols(w)) >= 2) =>
    last.out.raised = "ValueError"

\* C3: after a call on a dict returns or fails, the caller's dict maps every
\* label to the same frame as before the call.
C3_InputUnchanged ==
  DictCall(last) => data = last.data

\* C4: two calls on the same input with the same sampling rate give the same
\* result, whatever calls were made before or between them.
C4_Idempotent ==
  (kept.called /\ last.called /\ last.data = kept.data
     /\ last.sampling_rate = kept.sampling_rate) =>
    last.out = kept.out

\* The frame of the i-th label of the dict a call was given.
WindowAt(c, i) == c.data.dict.val[c.data.dict.keys[i]]

\* How the analysis of one epoch frame of a dict ends, read off the frame:
\* the missing-column error of the normalisation, the invalid-input error,
\* the missing-column error of the ECG_Rate lookup, the error of the
\* variability routine, or "none".
WindowError(w, sampling_rate) ==
  IF ~({"Index", "Label"} \subseteq DOMAIN w) THEN "KeyError"
  ELSE IF RateCols(w) = {} THEN "ValueError"
  ELSE IF "ECG_Rate" \notin DOMAIN w THEN "KeyError"
  ELSE ecg_hrv(w, sampling_rate).raised

\* The input is as the caller built it: every epoch frame of a dict has its
\* Index and Label columns.
WellFormed(c) ==
  c.data.kind = "dict" =>
    \A w \in Windows(c) : {"Index", "Label"} \subseteq DOMAIN w

\* C5 as claimed: a call whose input has a frame with no column whose name
\* contains ECG_Rate (the DataFrame, or the frame of any label of a dict)
\* fails with the invalid-input error and returns no table.
C5_MissingRateColumnRejected ==
  (last.called /\ WellFormed(last)
     /\ \E w \in Windows(last) : RateCols(w) = {}) =>
    (last.out.raised = "ValueError" /\ ~last.out.returned)

\* C5 amended: such a call fails and returns no table; the error is the
\* invalid-input error when the frame without a rate column is the DataFrame
\* itself, or is the frame of the first label of the dict whose analysis
\* fails and still has its Index and Label columns.
C5_MissingRateColumnFails ==
  (last.called /\ \E w \in Windows(last) : RateCols(w) = {}) =>
    /\ ~last.out.returned
    /\ last.out.raised # "none"
    /\ FrameCall(last) => last.out.raised = "ValueError"
    /\ DictCall(last) =>
         \A i \in 1..Len(last.data.dict.keys) :
           ( /\ RateCols(WindowAt(last, i)) = {}
             /\ {"Index", "Label"} \subseteq DOMAIN WindowAt(last, i)
             /\ \A j \in 1..(i - 1) :
                  WindowError(WindowAt(last, j), last.sampling_rate) = "none" )
           => last.out.raised = "ValueError"

\* C5 witness: a dict call whose first label is analysed successfully and
\* whose second label has no rate column, ended by the invalid-input error.
C5_Witness ==
  /\ DictCall(last)
  /\ Len(last.data.dict.keys) = 2
  /\ WindowError(WindowAt(last, 1), last.sampling_rate) = "none"
  /\ RateCols(WindowAt(last, 2)) = {}
  /\ last.out.raised = "ValueError"
  /\ ~last.out.returned

\* C6: a successful call on a dict returns one row per label, in the dict's
\* order; the columns are the union of the keys of the labels' own records
\* (ECG_Rate_Mean and the label's metrics); a row holds the label's own mean
\* and metrics, and NaN where the label's record has no such key.
C6_OneRowPerLabel ==
  (DictCall(last) /\ last.out.returned) =>
    LET d == last.data.dict
        m(l) == Metrics(d.val[l], last.sampling_rate)
        keysOf(l) == {"ECG_Rate_Mean"} \cup DOMAIN m(l)
    IN  /\ last.out.index = d.keys
        /\ last.out.columns = UNION {keysOf(l) : l \in KeySet(d)}
        /\ DOMAIN last.out.cell = KeySet(d) \X last.out.columns
        /\ \A l \in KeySet(d) : \A k \in last.out.columns :
             LET x == last.out.cell[<<l, k>>]
             IN  IF k = "ECG_Rate_Mean"
                 THEN /\ "ECG_Rate" \in DOMAIN d.val[l]
                      /\ IsMeanOf(x, d.val[l]["ECG_Rate"])
                 ELSE IF k \in DOMAIN m(l) THEN x = Float(m(l)[k])
                 ELSE x = NaN

\* C6 witness: a returned table of two labels in which a metric of one label
\* is NaN in the row of the other.
C6_Witness ==
  /\ DictCall(last)
  /\ last.out.returned
  /\ Len(last.out.index) = 2
  /\ \E l \in KeySet(last.data.dict) :
       /\ last.out.cell[<<l, "HRV_SDNN">>] = NaN
       /\ "HRV_SDNN" \notin DOMAIN Metrics(last.data.dict.val[l],
                                            last.sampling_rate)

\* C7: in every returned table, ECG_Rate_Mean of a window's row is the
\* arithmetic mean of that window's ECG_Rate column, whatever the sampling
\* rate and whatever earlier calls left behind.
C7_RateMeanIsArithmeticMean ==
  (last.called /\ last.out.returned) =>
    /\ FrameCall(last) =>
         /\ "ECG_Rate" \in DOMAIN last.data.frame
         /\ <<0, "ECG_Rate_Mean">> \in DOMAIN last.out.cell
         /\ IsMeanOf(last.out.cell[<<0, "ECG_Rate_Mean">>],
                     last.data.frame["ECG_Rate"])
    /\ DictCall(last) =>
         \A l \in KeySet(last.data.dict) :
           /\ "ECG_Rate" \in DOMAIN last.data.dict.val[l]
           /\ <<l, "ECG_Rate_Mean">> \in DOMAIN last.out.cell
           /\ IsMeanOf(last.out.cell[<<l, "ECG_Rate_Mean">>],
                       last.data.dict.val[l]["ECG_Rate"])

\* C7 witness: a returned one-row table whose mean differs from the mean an
\* earlier call left in the default record of the rate step.
C7_Witness ==
  /\ FrameCall(last)
  /\ last.out.returned
  /\ "ECG_Rate_Mean" \in DOMAIN last.fd
  /\ last.fd["ECG_Rate_Mean"] # last.out.cell[<<0, "ECG_Rate_Mean">>]
  /\ Len(last.data.frame["ECG_Rate"]) = 2

\* C8: when the analysis of some label of a dict fails, the call fails with
\* the error of the first such label and returns no table, with no row for
\* the labels analysed before it.
C8_AllOrNothing ==
  DictCall(last) =>
    LET failing == {i \in 1..Len(last.data.dict.keys) :
                      WindowError(WindowAt(last, i), last.sampling_rate)
                        # "none"}
    IN  failing # {} =>
          LET first == CHOOSE i \in failing : \A j \in failing : i <= j
          IN  /\ ~last.out.returned
              /\ last.out.index = <<>>
              /\ last.out.columns = {}
              /\ last.out.raised =
                   WindowError(WindowAt(last, first), last.sampling_rate)

\* C8 witness: the variability routine fails for the second label after the
\* first label was analysed to the end, and nothing is returned.
C8_Witness ==
  /\ DictCall(last)
  /\ Len(last.data.dict.keys) = 2
  /\ WindowError(WindowAt(last, 1), last.sampling_rate) = "none"
  /\ \E i \in 1..Len(last.log) :
       last.log[i] = <<"hrv", last.data.dict.keys[1]>>
  /\ last.out.raised = "HrvError"
  /\ ~last.out.returned

\* C9: a DataFrame with exactly one column whose name contains ECG_Rate
\* passes validation whatever the column's full name, its mean is recorded
\* as ECG_Rate_Mean, and the invalid-input error, raised for no or several
\* such columns, is the only validation failure.
C9_AnyRateLikeColumnAccepted ==
  FrameCall(last) =>
    IF Cardinality(RateCols(last.data.frame)) # 1
    THEN last.out.raised = "ValueError"
    ELSE LET col == CHOOSE c \in RateCols(last.data.frame) : TRUE
         IN  /\ last.out.raised \in {"none", "HrvError"}
             /\ \E i \in 1..Len(last.log) : last.log[i] = <<"mean", "frame">>
             /\ last.out.returned =>
                  IsMeanOf(last.out.cell[<<0, "ECG_Rate_Mean">>],
                           last.data.frame[col])

\* The position of a window in the order of the call's input.
Pos(c, window) ==
  IF c.data.kind = "DataFrame" THEN 1
  ELSE CHOOSE i \in 1..Len(c.data.dict.keys) : c.data.dict.keys[i] = window

\* C10: in one call the variability routine is invoked at most once per
\* window, and only after the window's rate column check passed and its mean
\* was recorded; the windows of a dict are handled in the dict's order, and
\* no label after a failing label is normalised, validated or analysed.
C10_StepOrder ==
  last.called =>
    LET log == last.log
        n == Len(log)
    IN  /\ \A j \in 1..n :
             log[j][1] = "hrv" =>
               \E i \in 1..(j - 1) :
                 /\ log[i] = <<"mean", log[j][2]>>
                 /\ \E h \in 1..(i - 1) : log[h] = <<"validate", log[j][2]>>
        /\ \A i, j \in 1..n :
             (log[i][1] = "hrv" /\ log[i] = log[j]) => i = j
        /\ \A i, j \in 1..n :
             i < j => Pos(last, log[i][2]) <= Pos(last, log[j][2])
        /\ DictCall(last) =>
             \A i \in 1..n : \A q \in 1..(Pos(last, log[i][2]) - 1) :
               WindowError(WindowAt(last, q), last.sampling_rate) = "none"

\* C10 witness: the first label in the dict's order, epoch2, fails in the
\* variability routine after its check and its mean; epoch1 is not touched.
C10_Witness ==
  /\ DictCall(last)
  /\ last.data.dict.keys = <<"epoch2", "epoch1">>
  /\ last.out.raised = "HrvError"
  /\ last.log = <<<<"normalize", "epoch2">>, <<"validate", "epoch2">>,
                  <<"mean", "epoch2">>, <<"hrv", "epoch2">>>>

====
